---- MODULE Spec2Model ----
(***************************************************************************)
(* The streaming row loader get_characters of the MongoDB comics workshop  *)
(* notebook: a generator that opens files[0], reads it with csv.DictReader *)
(* and yields one dictionary per data row after coercing the fields        *)
(* "Year" and "APPEARANCES" to integers.  The consumers of the notebook    *)
(* (a for loop that breaks, and list()) drive it one request at a time.    *)
(*                                                                         *)
(* A cell of the file is a sequence of Unicode code points, a row is a      *)
(* sequence of cells, and a dictionary is a function from keys to tagged   *)
(* values (str, int of any size, None, or the list csv.DictReader stores   *)
(* under its restkey).                                                     *)
(***************************************************************************)
EXTENDS Integers, Sequences, FiniteSets, TLC

\* ------------------------------------------------------------------ bounds

\* The longest file (in data rows) the one-invocation specification reads.
MaxRows == 3

\* The longest file (in data rows) the two-invocation specification reads.
MaxRowsPair == 2

\* ------------------------------------------------------------- Python values

\* A character is its Unicode code point; a string is a sequence of them.

\* The zero of every run of ten Unicode decimal digits: int() accepts each of
\* them as the digit of its place in the run (48 is "0", 1632 ARABIC-INDIC
\* DIGIT ZERO, 65296 FULLWIDTH DIGIT ZERO, ...).
DigitZeros ==
    {48, 1632, 1776, 1984, 2406, 2534, 2662, 2790, 2918, 3046, 3174, 3302,
     3430, 3558, 3664, 3792, 3872, 4160, 4240, 6112, 6160, 6470, 6608,
     6784, 6800, 6992, 7088, 7232, 7248, 42528, 43216, 43264, 43472,
     43504, 43600, 44016, 65296, 66720, 68912, 69734, 69872, 69942, 70096,
     70384, 70736, 70864, 71248, 71360, 71472, 71904, 72016, 72784, 73040,
     73120, 92768, 92864, 93008, 120782, 120792, 120802, 120812, 120822,
     123200, 123632, 125264, 130032}

Digits == UNION {z..(z + 9) : z \in DigitZeros}

\* The characters int() strips from both ends of its argument: U+0009-000D,
\* U+0020, U+0085, U+00A0, U+1680, U+2000-200A, U+2028, U+2029, U+202F, U+205F
\* and U+3000.
Whitespace ==
    (9..13) \cup {32, 133, 160, 5760} \cup (8192..8202) \cup {8232, 8233, 8239, 8287, 12288}

PlusSign == 43
MinusSign == 45
Underscore == 95

\* The longest digit string int() converts (sys.get_int_max_str_digits()).
IntMaxStrDigits == 4300

Min(S) == CHOOSE x \in S : \A y \in S : x <= y
Max(S) == CHOOSE x \in S : \A y \in S : x >= y

\* The value of a decimal digit.
DigitVal(c) == c - Max({z \in DigitZeros : z <= c})

\* Python values, all records of one shape so that any two compare.  An int has
\* no width: it is its sign and the decimal digits of its magnitude, without
\* leading zeros (zero is <<0>>).
NoneVal == [kind |-> "none", neg |-> FALSE, i |-> << >>, s |-> << >>, rest |-> << >>]
StrVal(cs) == [kind |-> "str", neg |-> FALSE, i |-> << >>, s |-> cs, rest |-> << >>]
IntVal(neg, ds) == [kind |-> "int", neg |-> neg, i |-> ds, s |-> << >>, rest |-> << >>]
ListVal(cells) == [kind |-> "list", neg |-> FALSE, i |-> << >>, s |-> << >>, rest |-> cells]

\* bool(v): None, the empty string, zero and the empty list are false.
Truthy(v) ==
    CASE v.kind = "none" -> FALSE
      [] v.kind = "str" -> v.s # << >>
      [] v.kind = "int" -> v.i # <<0>>
      [] v.kind = "list" -> v.rest # << >>

\* The argument of int() without the white space at its ends.
Strip(cs) ==
    LET keep == {k \in 1..Len(cs) : cs[k] \notin Whitespace}
    IN  IF keep = {} THEN << >> ELSE SubSeq(cs, Min(keep), Max(keep))

\* The literal without its sign.
Unsigned(cs) ==
    IF cs # << >> /\ cs[1] \in {PlusSign, MinusSign} THEN SubSeq(cs, 2, Len(cs)) ELSE cs

IsDigit(c) == c \in Digits

\* A base-10 digit string: digits, with single underscores between digits, and
\* no more than IntMaxStrDigits digits.
DigitString(cs) ==
    /\ cs # << >>
    /\ cs[1] \in Digits
    /\ cs[Len(cs)] \in Digits
    /\ \A k \in 1..Len(cs) : cs[k] \in Digits \cup {Underscore}
    /\ \A k \in 1..(Len(cs) - 1) : ~(cs[k] = Underscore /\ cs[k + 1] = Underscore)
    /\ Len(SelectSeq(cs, IsDigit)) <= IntMaxStrDigits

\* int(s) raises no ValueError.
IntLiteral(cs) == DigitString(Unsigned(Strip(cs)))

\* The decimal digits of the magnitude of a digit string: the values of its
\* digits, the leading zeros dropped.
DigitsValue(cs) ==
    LET ds == SelectSeq(cs, IsDigit)
        vs == [k \in 1..Len(ds) |-> DigitVal(ds[k])]
        nz == {k \in 1..Len(vs) : vs[k] # 0}
    IN  IF nz = {} THEN <<0>> ELSE SubSeq(vs, Min(nz), Len(vs))

\* int(s) for a string int() accepts.
PyInt(cs) ==
    LET t == Strip(cs)
        ds == DigitsValue(Unsigned(t))
    IN  IntVal(t[1] = MinusSign /\ ds # <<0>>, ds)

\* ------------------------------------------------------------ csv.DictReader

\* The key csv.DictReader stores surplus cells under (restkey, None by default).
RestKey == "<None>"

Range(f) == {f[x] : x \in DOMAIN f}

\* DictRow as a reader that leaves the field names without a cell out of the
\* dictionary.
DictRowNoPad(header, row) ==
    LET lf == Len(header)
        lr == Len(row)
        both == 1..Min({lf, lr})
        surplus == IF lf < lr THEN {RestKey} ELSE {}
    IN  [k \in {header[j] : j \in both} \cup surplus |->
           IF k \in surplus THEN ListVal(SubSeq(row, lf + 1, lr))
           ELSE StrVal(row[Max({j \in both : header[j] = k})])]

\* DictRow as a reader that drops the surplus cells of a row.
DictRowNoRest(header, row) ==
    LET lf == Len(header)
        lr == Len(row)
        both == 1..Min({lf, lr})
        padded == {header[j] : j \in (lr + 1)..lf}
    IN  [k \in {header[j] : j \in both} \cup padded |->
           IF k \in padded THEN NoneVal
           ELSE StrVal(row[Max({j \in both : header[j] = k})])]

\* The dictionary csv.DictReader builds from one non-blank row: the cells zipped
\* with the field names (a repeated name keeps its last cell), then surplus
\* cells as a list under restkey, or the field names without a cell set to
\* restval (None).
DictRow(header, row) ==
    LET lf == Len(header)
        lr == Len(row)
        both == 1..Min({lf, lr})
        padded == {header[j] : j \in (lr + 1)..lf}
        surplus == IF lf < lr THEN {RestKey} ELSE {}
    IN  [k \in {header[j] : j \in both} \cup padded \cup surplus |->
           IF k \in surplus THEN ListVal(SubSeq(row, lf + 1, lr))
           ELSE IF k \in padded THEN NoneVal
           ELSE StrVal(row[Max({j \in both : header[j] = k})])]

\* NextRow as a reader that steps over one more row than it returned.
NextRowSkip(rows, pos) ==
    LET left == {k \in (pos + 2)..Len(rows) : rows[k] # << >>}
    IN  IF left = {} THEN 0 ELSE Min(left)

\* The index of the next row csv.DictReader returns after `pos` rows were read:
\* blank rows are skipped; 0 when the rows are used up.
NextRow(rows, pos) ==
    LET left == {k \in (pos + 1)..Len(rows) : rows[k] # << >>}
    IN  IF left = {} THEN 0 ELSE Min(left)

\* ------------------------------------------------------------ get_characters

\* The fields the loader converts to integers.
NumericFields == {"Year", "APPEARANCES"}

\* The source identifiers the assert accepts.
Recognized(source) == source \in {"marvel", "dc"}

\* Coerce as a conversion that puts None where int() rejects the cell.
CoerceLenient(v) ==
    IF ~Truthy(v) THEN [err |-> "none", val |-> NoneVal]
    ELSE IF v.kind = "int" THEN [err |-> "none", val |-> v]
    ELSE IF v.kind = "str" /\ IntLiteral(v.s) THEN [err |-> "none", val |-> PyInt(v.s)]
    ELSE [err |-> "none", val |-> NoneVal]

\* `int(v) if v else None` for one field of the row: None for a false value,
\* an int as it is, the integer of a string int() accepts, a ValueError for any
\* other string and a TypeError for a list.
Coerce(v) ==
    IF ~Truthy(v) THEN [err |-> "none", val |-> NoneVal]
    ELSE IF v.kind = "int" THEN [err |-> "none", val |-> v]
    ELSE IF v.kind = "list" THEN [err |-> "TypeError", val |-> v]
    ELSE IF IntLiteral(v.s) THEN [err |-> "none", val |-> PyInt(v.s)]
    ELSE [err |-> "ValueError", val |-> v]

\* One field of the row replaced by its coerced value: a KeyError when the row
\* has no such key, a ValueError when int() rejects the cell.
CoerceField(d, key) ==
    IF key \notin DOMAIN d THEN [err |-> "KeyError", rec |-> d]
    ELSE LET c == Coerce(d[key])
         IN  IF c.err # "none" THEN [err |-> c.err, rec |-> d]
             ELSE [err |-> "none", rec |-> [d EXCEPT ![key] = c.val]]

\* The body of the for loop up to the yield: "Year" first, then "APPEARANCES".
Convert(d) ==
    LET y == CoerceField(d, "Year")
    IN  IF y.err # "none" THEN y ELSE CoerceField(y.rec, "APPEARANCES")

\* ------------------------------------------------------------------- inputs

MarvelPath == "data/marvel-wikia-data.csv"
DcPath == "data/dc-wikia-data.csv"
Paths == {MarvelPath, DcPath}

\* No file: the path of an invocation that has opened nothing.
NoPath == ""

\* The file of a publisher.
PathOf(source) ==
    CASE source = "marvel" -> MarvelPath
      [] source = "dc" -> DcPath
      [] OTHER -> NoPath

\* What glob("data/*") may return: the files of the directory, in any order.
Listings ==
    {<< >>, <<MarvelPath>>, <<DcPath>>, <<MarvelPath, DcPath>>, <<DcPath, MarvelPath>>}

\* The header rows: the year column is "Year" in the Marvel file and "YEAR" in
\* the DC file and in the notebook's table of variables; a file may also lack
\* a column the loader reads.
MarvelHeader == <<"name", "Year", "APPEARANCES">>
DcHeader == <<"name", "YEAR", "APPEARANCES">>
YearOnlyHeader == <<"name", "Year">>
Headers == {MarvelHeader, DcHeader, YearOnlyHeader}

\* Alice,1990,12
RowAlice ==
    << <<65, 108, 105, 99, 101>>, <<49, 57, 57, 48>>, <<49, 50>> >>
\* Bob,,5
RowBob ==
    << <<66, 111, 98>>, <<>>, <<53>> >>
\* Carol,2001,
RowCarol ==
    << <<67, 97, 114, 111, 108>>, <<50, 48, 48, 49>>, <<>> >>
\* X,N/A,1
RowBad ==
    << <<88>>, <<78, 47, 65>>, <<49>> >>
\* Dan,1985 (no third cell)
RowShort ==
    << <<68, 97, 110>>, <<49, 57, 56, 53>> >>
\* Eve,0, +1_0 ,extra (a fourth cell)
RowLong ==
    << <<69, 118, 101>>, <<48>>, <<32, 43, 49, 95, 48, 32>>, <<101, 120, 116, 114, 97>> >>
\* Zed, 1990 in Arabic-Indic digits after a vertical tab, 9999999999 before a no-break space
RowWide ==
    << <<90, 101, 100>>, <<11, 1633, 1641, 1641, 1632>>, <<57, 57, 57, 57, 57, 57, 57, 57, 57, 57, 160>> >>
\* a blank line
RowBlank == << >>

\* The data rows the files are made of.
RowSet == {RowAlice, RowBob, RowCarol, RowBad, RowShort, RowLong, RowWide, RowBlank}

RowSeqs(n) == UNION {[1..k -> RowSet] : k \in 0..n}

\* A file that cannot be opened.
Unreadable == [ok |-> FALSE, header |-> << >>, rows |-> << >>]

Tables(n) ==
    {[ok |-> TRUE, header |-> h, rows |-> r] : h \in Headers, r \in RowSeqs(n)}
      \cup {Unreadable}

\* The file of the notebook's table of variables, as far as the loader reads it.
ScenarioTable ==
    [ok |-> TRUE, header |-> DcHeader, rows |-> <<RowAlice, RowBob, RowCarol>>]

\* The directory: the listed files, the first of them with any content.
Disks(listing, n) ==
    {[p \in Range(listing) |-> IF p = listing[1] THEN t ELSE ScenarioTable] :
        t \in Tables(n)}

Sources == {"marvel", "dc", "image"}
Invocations == {"a", "b"}

\* ---------------------------------------------------------------------- state

VARIABLES files, disk, gen
vars == <<files, disk, gen>>

\* The generator object get_characters(source) returns: no line of the body
\* has run.
NewGen(source) ==
    [source |-> source, pc |-> "created", pos |-> 0, handle |-> FALSE,
     path |-> NoPath, delivered |-> << >>, last |-> "none"]

\* Raise without the with statement: the file stays open.
RaiseLeak(g, err) == [g EXCEPT !.pc = "failed", !.last = err]

\* An exception leaves the generator: the with statement closes the file on the
\* way out, and the generator is finished.
Raise(g, err) == [g EXCEPT !.pc = "failed", !.handle = FALSE, !.last = err]

\* The reader is used up: the with block ends, the file is closed and the
\* generator returns (StopIteration).
Finish(g) == [g EXCEPT !.pc = "exhausted", !.handle = FALSE, !.last = "StopIteration"]

\* yield dict(row): the record goes to the consumer, the generator is suspended
\* inside the with block.
Yield(g, rec) ==
    [g EXCEPT !.pc = "suspended", !.delivered = Append(@, rec), !.last = "record"]

\* One turn of `for row in reader`, from the read position of the generator.
Step(g, table) ==
    LET k == NextRow(table.rows, g.pos)
    IN  IF k = 0 THEN Finish([g EXCEPT !.pos = Len(table.rows)])
        ELSE LET c == Convert(DictRow(table.header, table.rows[k]))
                 at == [g EXCEPT !.pos = k]
             IN  IF c.err # "none" THEN Raise(at, c.err) ELSE Yield(at, c.rec)

\* open(files[0], 'r') succeeded.
Opened(g, path) == [g EXCEPT !.handle = TRUE, !.path = path]

\* Begin with the assert inside the with block.
BeginOpenFirst(g) ==
    IF files = << >> THEN Raise(g, "IndexError")
    ELSE IF ~disk[files[1]].ok THEN Raise(g, "OSError")
    ELSE IF ~Recognized(g.source) THEN Raise(Opened(g, files[1]), "AssertionError")
    ELSE Step(Opened(g, files[1]), disk[files[1]])

\* The first next(): the body runs from its first line to the first yield.
Begin(g) ==
    IF ~Recognized(g.source) THEN Raise(g, "AssertionError")
    ELSE IF files = << >> THEN Raise(g, "IndexError")
    ELSE IF ~disk[files[1]].ok THEN Raise(g, "OSError")
    ELSE Step(Opened(g, files[1]), disk[files[1]])

\* Close without the with statement: the file stays open.
CloseLeak(g) == [g EXCEPT !.pc = "closed"]

\* The generator is closed while suspended at the yield (the for loop of the
\* notebook breaks and drops it): GeneratorExit leaves the with block.
Close(g) == [g EXCEPT !.pc = "closed", !.handle = FALSE]

Start(i) ==
    /\ gen[i].pc = "created"
    /\ gen' = [gen EXCEPT ![i] = Begin(gen[i])]
    /\ UNCHANGED <<files, disk>>

\* Resume with one read position for all the invocations of a file.
ResumeShared(i) ==
    /\ gen[i].pc = "suspended"
    /\ LET far == Max({gen[j].pos : j \in {j \in DOMAIN gen : gen[j].path = gen[i].path}})
       IN  gen' = [gen EXCEPT ![i] = Step([gen[i] EXCEPT !.pos = far], disk[gen[i].path])]
    /\ UNCHANGED <<files, disk>>

Resume(i) ==
    /\ gen[i].pc = "suspended"
    /\ gen' = [gen EXCEPT ![i] = Step(gen[i], disk[gen[i].path])]
    /\ UNCHANGED <<files, disk>>

Abandon(i) ==
    /\ gen[i].pc = "suspended"
    /\ gen' = [gen EXCEPT ![i] = Close(gen[i])]
    /\ UNCHANGED <<files, disk>>

\* next() on a finished generator raises StopIteration and yields nothing.
RequestFinished(i) ==
    /\ gen[i].pc \in {"failed", "closed"}
    /\ gen[i].last # "StopIteration"
    /\ gen' = [gen EXCEPT ![i].last = "StopIteration"]
    /\ UNCHANGED <<files, disk>>

Init ==
    /\ files \in Listings
    /\ disk \in Disks(files, MaxRows)
    /\ gen \in [{"a"} -> {NewGen(s) : s \in Sources}]

InitPair ==
    /\ files \in Listings
    /\ disk \in Disks(files, MaxRowsPair)
    /\ gen \in [Invocations -> {NewGen(s) : s \in Sources}]

Next ==
    \/ \E i \in DOMAIN gen : Start(i)
    \/ \E i \in DOMAIN gen : Resume(i)
    \/ \E i \in DOMAIN gen : Abandon(i)
    \/ \E i \in DOMAIN gen : RequestFinished(i)

Spec == Init /\ [][Next]_vars

SpecPair == InitPair /\ [][Next]_vars

\* --------------------------------------------------------------- properties

\* The invocation has opened a file, and the file it reads.
Reading(i) == gen[i].path # NoPath
TableOf(i) == disk[gen[i].path]

\* The data lines that are not blank, how many of them precede line k, and the
\* line the n-th record of an invocation comes from.
NonBlank(rows) == {k \in 1..Len(rows) : rows[k] # << >>}
Before(rows, k) == Cardinality({j \in NonBlank(rows) : j < k})
RowOf(rows, n) == CHOOSE k \in NonBlank(rows) : Before(rows, k) = n - 1

IsPrefix(s, t) == Len(s) <= Len(t) /\ SubSeq(t, 1, Len(s)) = s

\* The fields the loader leaves alone hold the cells of the row.
FromRow(rec, header, row) ==
    \A j \in 1..Min({Len(header), Len(row)}) :
        header[j] \notin NumericFields =>
            header[j] \in DOMAIN rec /\ rec[header[j]] = StrVal(row[j])

\* Every data line has as many cells as the header has fields.
WellFormed(table) ==
    table.ok /\ \A k \in 1..Len(table.rows) : Len(table.rows[k]) = Len(table.header)

\* Text no integer literal contains.
NonNumeric(cs) ==
    cs # << >>
      /\ \E c \in Range(cs) :
             c \notin Digits \cup Whitespace \cup {PlusSign, MinusSign, Underscore}

\* A numeric field of the row (the year, under either spelling of its column, or
\* the appearance count) holds non-empty, non-numeric text.
BadNumeric(header, row) ==
    \E j \in 1..Min({Len(header), Len(row)}) :
        header[j] \in NumericFields \cup {"YEAR"} /\ NonNumeric(row[j])

\* C1: an invocation that has ended, by exhausting the rows or by an error
\* raised while opening the file or reading a row, holds no open file handle.
C1_HandleClosedAtEnd ==
    \A i \in DOMAIN gen : gen[i].pc \in {"exhausted", "failed"} => ~gen[i].handle

\* C1 witness: an invocation failed on a row after it had opened the file and
\* delivered a record.
C1_Witness ==
    \E i \in DOMAIN gen :
        /\ gen[i].pc = "failed"
        /\ Reading(i)
        /\ gen[i].last = "ValueError"
        /\ Len(gen[i].delivered) >= 1

\* C2: an invocation the consumer abandoned while it was suspended at the yield
\* holds no open file handle.
C2_AbandonReleases ==
    \A i \in DOMAIN gen : gen[i].pc = "closed" => ~gen[i].handle

\* C2 witness: the consumer stopped after N records, N at least one and smaller
\* than the number of data rows.
C2_Witness ==
    \E i \in DOMAIN gen :
        /\ gen[i].pc = "closed"
        /\ Reading(i)
        /\ Len(gen[i].delivered) >= 1
        /\ Len(gen[i].delivered) < Cardinality(NonBlank(TableOf(i).rows))

\* The records of the file name,YEAR,APPEARANCES / Alice,1990,12 / Bob,,5 /
\* Carol,2001, as the claim gives them.
ScenarioRecords ==
    << [name |-> StrVal(RowAlice[1]), YEAR |-> IntVal(FALSE, <<1, 9, 9, 0>>),
        APPEARANCES |-> IntVal(FALSE, <<1, 2>>)],
       [name |-> StrVal(RowBob[1]), YEAR |-> NoneVal, APPEARANCES |-> IntVal(FALSE, <<5>>)],
       [name |-> StrVal(RowCarol[1]), YEAR |-> IntVal(FALSE, <<2, 0, 0, 1>>),
        APPEARANCES |-> NoneVal] >>

\* C3: in every record delivered, the fields YEAR and APPEARANCES of the header
\* hold None where the cell is empty or missing and the integer of the cell
\* otherwise; and the invocation that reads the file name,YEAR,APPEARANCES /
\* Alice,1990,12 / Bob,,5 / Carol,2001, ends having delivered exactly its three
\* records.
C3_NumericFields ==
    \A i \in DOMAIN gen :
        Reading(i) =>
            LET t == TableOf(i)
            IN  /\ \A n \in 1..Len(gen[i].delivered) :
                     LET row == t.rows[RowOf(t.rows, n)]
                         rec == gen[i].delivered[n]
                     IN  \A j \in 1..Len(t.header) :
                             t.header[j] \in {"YEAR", "APPEARANCES"} =>
                                 /\ t.header[j] \in DOMAIN rec
                                 /\ rec[t.header[j]] =
                                      IF j > Len(row) \/ row[j] = << >> THEN NoneVal
                                      ELSE PyInt(row[j])
                /\ (t = ScenarioTable /\ gen[i].pc \in {"exhausted", "failed"})
                     => gen[i].delivered = ScenarioRecords

\* C4: the file an invocation opens is the file of its source identifier.
C4_OpensOwnFile ==
    \A i \in DOMAIN gen : Reading(i) => gen[i].path = PathOf(gen[i].source)

\* C5 as claimed: once the reader has reached a data row with fewer cells than
\* the header, the invocation has failed at that row.
C5_ShortRowFails ==
    \A i \in DOMAIN gen :
        Reading(i) =>
            \A k \in 1..gen[i].pos :
                Len(TableOf(i).rows[k]) < Len(TableOf(i).header) =>
                    gen[i].pc = "failed" /\ gen[i].pos = k

\* C5 amended: a row with fewer cells than the header raises no error of its
\* own.  A blank line is skipped; the record of any other short row has every
\* header field as a key, the fields without a cell being None; and an
\* invocation that failed at a short row failed because the header lacks a
\* field the loader converts or because int() rejects a cell the row does have.
C5_ShortRowPadded ==
    \A i \in DOMAIN gen :
        Reading(i) =>
            LET t == TableOf(i)
                lf == Len(t.header)
            IN  /\ \A n \in 1..Len(gen[i].delivered) :
                     LET row == t.rows[RowOf(t.rows, n)]
                         rec == gen[i].delivered[n]
                     IN  Len(row) < lf =>
                             /\ Range(t.header) \subseteq DOMAIN rec
                             /\ \A j \in (Len(row) + 1)..lf : rec[t.header[j]] = NoneVal
                /\ (gen[i].pc = "failed" /\ gen[i].pos >= 1
                      /\ Len(t.rows[gen[i].pos]) < lf)
                     => \/ ~(NumericFields \subseteq Range(t.header))
                        \/ \E j \in 1..Len(t.rows[gen[i].pos]) :
                               /\ t.header[j] \in NumericFields
                               /\ t.rows[gen[i].pos][j] # << >>
                               /\ ~IntLiteral(t.rows[gen[i].pos][j])

\* C5 witness: a short row gave a record with None for its missing field, and
\* a later row gave a record after it.
C5_Witness ==
    \E i \in DOMAIN gen :
        /\ Reading(i)
        /\ Len(gen[i].delivered) >= 2
        /\ TableOf(i).rows[RowOf(TableOf(i).rows, 1)] = RowShort
        /\ gen[i].delivered[1]["APPEARANCES"] = NoneVal

\* C6: once the reader has reached a row k one of whose numeric fields holds
\* non-empty, non-numeric text, the invocation has failed at row k: the records
\* delivered are those of the rows before k, one each, and the read position
\* never passes k.
C6_BadNumberStopsAtRow ==
    \A i \in DOMAIN gen :
        Reading(i) =>
            LET t == TableOf(i)
            IN  \A k \in NonBlank(t.rows) :
                    (BadNumeric(t.header, t.rows[k]) /\ gen[i].pos >= k) =>
                        /\ gen[i].pc = "failed"
                        /\ gen[i].pos = k
                        /\ Len(gen[i].delivered) = Before(t.rows, k)
                        /\ \A n \in 1..Len(gen[i].delivered) :
                               FromRow(gen[i].delivered[n], t.header,
                                       t.rows[RowOf(t.rows, n)])

\* C6 witness: the third row holds the bad number; two records were delivered
\* before the error.
C6_Witness ==
    \E i \in DOMAIN gen :
        /\ Reading(i)
        /\ gen[i].pc = "failed"
        /\ gen[i].pos = 3
        /\ BadNumeric(TableOf(i).header, TableOf(i).rows[3])
        /\ Len(gen[i].delivered) = 2

\* C7: an invocation whose source identifier is neither "marvel" nor "dc" never
\* opens a file and delivers nothing: once requested, it has failed.
C7_UnknownSourceOpensNothing ==
    \A i \in DOMAIN gen :
        gen[i].source \notin {"marvel", "dc"} =>
            /\ gen[i].path = NoPath
            /\ ~gen[i].handle
            /\ gen[i].delivered = << >>
            /\ gen[i].pc \in {"created", "failed"}

\* C7 witness: the assert rejected the source although a readable file was
\* there to open.
C7_Witness ==
    \E i \in DOMAIN gen :
        /\ gen[i].source = "image"
        /\ gen[i].pc = "failed"
        /\ gen[i].last = "AssertionError"
        /\ files # << >>
        /\ disk[files[1]].ok
        /\ disk[files[1]].rows # << >>

\* C8: two invocations that read the same file deliver the same records in the
\* same order: at any moment what one has delivered is a prefix of what the
\* other has, and two that ran to their end delivered the same sequence.
C8_SameFileSameRecords ==
    \A i, j \in DOMAIN gen :
        (Reading(i) /\ gen[i].path = gen[j].path) =>
            /\ \/ IsPrefix(gen[i].delivered, gen[j].delivered)
               \/ IsPrefix(gen[j].delivered, gen[i].delivered)
            /\ (gen[i].pc \in {"exhausted", "failed"}
                  /\ gen[j].pc \in {"exhausted", "failed"})
                 => /\ gen[i].delivered = gen[j].delivered
                    /\ gen[i].pc = gen[j].pc
                    /\ gen[i].pos = gen[j].pos

\* C8 witness: two invocations each ran through the same two-row file.
C8_Witness ==
    \E i, j \in DOMAIN gen :
        /\ i # j
        /\ gen[i].pc = "exhausted"
        /\ gen[j].pc = "exhausted"
        /\ gen[i].path = gen[j].path
        /\ Len(gen[i].delivered) = 2
        /\ Len(gen[j].delivered) = 2

\* C9: an invocation that ran through a well-formed file has delivered as many
\* records as the file has data lines, the n-th record from the n-th line; and
\* while it is suspended it has delivered one record per line read.
C9_OneRecordPerLine ==
    \A i \in DOMAIN gen :
        (Reading(i) /\ WellFormed(TableOf(i))) =>
            LET t == TableOf(i)
            IN  /\ gen[i].pc = "exhausted" => Len(gen[i].delivered) = Len(t.rows)
                /\ gen[i].pc = "suspended" => Len(gen[i].delivered) = gen[i].pos
                /\ \A n \in 1..Len(gen[i].delivered) :
                       FromRow(gen[i].delivered[n], t.header, t.rows[n])

\* C9 witness: a well-formed file of three data lines was read to its end.
C9_Witness ==
    \E i \in DOMAIN gen :
        /\ Reading(i)
        /\ WellFormed(TableOf(i))
        /\ gen[i].pc = "exhausted"
        /\ Len(TableOf(i).rows) = 3
        /\ Len(gen[i].delivered) = 3

\* C10 as claimed: the key set of every record delivered is the set of field
\* names of the header.
C10_KeysAreHeader ==
    \A i \in DOMAIN gen :
        \A n \in 1..Len(gen[i].delivered) :
            DOMAIN gen[i].delivered[n] = Range(TableOf(i).header)

\* C10 amended: the key set of every record delivered is the set of field names
\* of the header, with the key None added exactly when the row of the record
\* has more cells than the header.
C10_KeysAreHeaderOrRest ==
    \A i \in DOMAIN gen :
        \A n \in 1..Len(gen[i].delivered) :
            LET t == TableOf(i)
                row == t.rows[RowOf(t.rows, n)]
            IN  DOMAIN gen[i].delivered[n] =
                    Range(t.header) \cup
                        (IF Len(row) > Len(t.header) THEN {RestKey} ELSE {})

\* C10 witness: one invocation delivered the record of a row with surplus cells
\* and the record of a row without.
C10_Witness ==
    \E i \in DOMAIN gen :
        /\ Len(gen[i].delivered) >= 2
        /\ RestKey \in DOMAIN gen[i].delivered[1]
        /\ RestKey \notin DOMAIN gen[i].delivered[2]

====
